---- MODULE Spec2Model ----
(***************************************************************************)
(* WOOP timesheet tracker (src/app.py): the calendar helpers, the status   *)
(* classifier, the POST /submit handler with its two entry tables, the     *)
(* outstanding-items resolver and the compliance scorer.                   *)
(*                                                                         *)
(* Representation                                                          *)
(*   date object      the proleptic Gregorian ordinal (date.toordinal())   *)
(*   "YYYY-MM-DD"     the triple <<year, month, day>> of its three fields; *)
(*                    strftime is DateStr, strptime is ParseDate           *)
(*   survey_id        <<date string, "(Forecast)" | "(Actual)">>: the two  *)
(*                    space-separated tokens of f"{date} (Forecast)"       *)
(*   JSON object      a record; a key the request leaves out is a field    *)
(*                    the record does not have (dict.get is Get)           *)
(*   table            the sequence of its rows in primary-key order        *)
(*   modified         the date part of datetime.utcnow() at insert time    *)
(***************************************************************************)
EXTENDS Integers, Sequences, FiniteSets

VARIABLES
    today,           \* datetime.now().date(): the server's local date
    tz,              \* sign of the server's UTC offset (1 east, 0 UTC, -1 west)
    forecast_entry,  \* table forecast_entry (class ForecastEntry)
    current_entry,   \* table current_entry (class CurrentEntry)
    nudge,           \* table nudge (class Nudge)
    session,         \* db.session of each POST /submit in flight
    last             \* the last request handled and the response it got

vars == <<today, tz, forecast_entry, current_entry, nudge, session, last>>

None == "None"

----------------------------------------------------------------------------
(* datetime.date arithmetic, as CPython's datetime computes it.            *)

IsLeap(y) == (y % 4 = 0) /\ ((y % 100 # 0) \/ (y % 400 = 0))

DaysInMonth(y, m) ==
    CASE m \in {1, 3, 5, 7, 8, 10, 12} -> 31
      [] m \in {4, 6, 9, 11} -> 30
      [] OTHER -> IF IsLeap(y) THEN 29 ELSE 28

\* _DAYS_BEFORE_MONTH, plus the leap day after February
DaysBeforeMonth(y, m) ==
    <<0, 31, 59, 90, 120, 151, 181, 212, 243, 273, 304, 334>>[m]
        + (IF m > 2 /\ IsLeap(y) THEN 1 ELSE 0)

DaysBeforeYear(y) ==
    (y - 1) * 365 + ((y - 1) \div 4) - ((y - 1) \div 100) + ((y - 1) \div 400)

\* date(y, m, d).toordinal()
Ymd2Ord(y, m, d) == DaysBeforeYear(y) + DaysBeforeMonth(y, m) + d

\* date.weekday(): Monday is 0, Sunday is 6
Weekday(ord) == (ord + 6) % 7

\* date.fromordinal(ord) as datetime._ord2ymd finds it: 400-, 100-, 4- and
\* 1-year cycles from 0001-01-01, then the month estimated and corrected.
Ord2Ymd(ord) ==
    LET r400 == (ord - 1) % 146097
        n100 == r400 \div 36524
        r4 == (r400 % 36524) % 1461
        n1 == r4 \div 365
        n == r4 % 365
        year == ((ord - 1) \div 146097) * 400 + 1 + n100 * 100
                    + ((r400 % 36524) \div 1461) * 4 + n1
        month == (n + 50) \div 32
        preceding == DaysBeforeMonth(year, month)
    IN  IF n1 = 4 \/ n100 = 4 THEN <<year - 1, 12, 31>>
        ELSE IF preceding > n
             THEN <<year, month - 1,
                    n - (preceding - DaysInMonth(year, month - 1)) + 1>>
             ELSE <<year, month, n - preceding + 1>>

YearOf(ord) == Ord2Ymd(ord)[1]

\* date.strftime('%Y-%m-%d')
DateStr(ord) == Ord2Ymd(ord)

\* datetime.strptime(s, '%Y-%m-%d').date()
ParseDate(s) == Ymd2Ord(s[1], s[2], s[3])

\* dict.get(key, default)
Get(d, key, default) == IF key \in DOMAIN d THEN d[key] ELSE default

----------------------------------------------------------------------------
(* date utils                                                              *)

\* get_next_monday that answers the Monday after when today is a Monday
get_next_monday_AfterToday(now) == DateStr(now + 7 - Weekday(now))

get_next_monday(now) ==
    LET d0 == (7 - Weekday(now)) % 7
        days_until_monday == IF d0 = 0 /\ Weekday(now) # 0 THEN 7 ELSE d0
    IN  DateStr(now + days_until_monday)

get_last_friday(now) ==
    LET d0 == (Weekday(now) - 4) % 7
        days_since_friday == IF d0 = 0 /\ Weekday(now) # 4 THEN 7 ELSE d0
    IN  DateStr(now - days_since_friday)

\* get_date_status with the actual of today not yet due (>= for >)
get_date_status_TodayNotDue(date_str, entry_type, has_entry, now) ==
    LET date_obj == ParseDate(date_str)
    IN  IF has_entry THEN "green"
        ELSE IF entry_type = "forecast"
             THEN IF date_obj = ParseDate(get_next_monday(now)) THEN "blue" ELSE "gray"
             ELSE IF date_obj >= now THEN "gray" ELSE "red"

get_date_status(date_str, entry_type, has_entry, now) ==
    LET date_obj == ParseDate(date_str)
    IN  IF has_entry THEN "green"
        ELSE IF entry_type = "forecast"
             THEN LET next_monday == ParseDate(get_next_monday(now))
                  IN  IF date_obj = next_monday THEN "blue"
                      ELSE IF date_obj < now THEN "gray"
                      ELSE "gray"
             ELSE IF date_obj > now THEN "gray" ELSE "red"

----------------------------------------------------------------------------
(* Strings.  The model's strings are the identities, project names and     *)
(* notes below; str.lower and str.strip are given by what they return on   *)
(* them.                                                                   *)

\* str.lower()
Lower(s) == CASE s = "Ann@x" -> "ann@x" [] OTHER -> s

\* str.strip()
Strip(s) == CASE s = " p " -> "p" [] s = " n " -> "n" [] s = " " -> "" [] OTHER -> s

----------------------------------------------------------------------------
(* Bounds and inputs                                                       *)

MaxDays == 2      \* the clock runs for MaxDays days after its first day
MaxStore == 2     \* rows the two entry tables hold together

\* Identities the Identity Source resolves; the two differ in case only.
Users == {"ann@x", "Ann@x"}

\* Selected dates: an old Friday, the Friday and the Monday before Wednesday
\* 2024-03-13, and the two Fridays and the two Mondays after it.
DateInputs ==
    {<<2024, 3, 1>>, <<2024, 3, 8>>, <<2024, 3, 11>>, <<2024, 3, 15>>,
     <<2024, 3, 18>>, <<2024, 3, 22>>, <<2024, 3, 25>>}

TypeInputs == {"forecast", "actual"}

rowP == [project |-> " p ", days |-> 1, notes |-> " n "]
rowQ == [project |-> "q", days |-> 2, notes |-> ""]

\* Row lists: none, one valid row, two valid rows, a valid row between a
\* blank project and no project, and zero, negative and missing days.
RowLists ==
    {<<>>, <<rowP>>, <<rowP, rowQ>>,
     <<[project |-> " ", days |-> 1, notes |-> ""], rowQ, [days |-> 1]>>,
     <<[project |-> "q", days |-> 0, notes |-> ""],
       [project |-> "q", days |-> -1, notes |-> ""],
       [project |-> "q", notes |-> ""]>>}

\* A JSON body {date, type, rows}; <<>> for date and "absent" for type leave
\* the key out.
Body(date, type, rows) ==
    LET keys == {k \in {"date", "type", "rows"} :
                    /\ (k = "date" => date # <<>>)
                    /\ (k = "type" => type # "absent")}
    IN  [k \in keys |-> CASE k = "date" -> date [] k = "type" -> type [] OTHER -> rows]

\* datetime.utcnow().date() at some moment of the local day `now`
UtcDates(now, offset) == {now, now - offset}

----------------------------------------------------------------------------
(* POST /submit                                                            *)

\* Model.query.filter_by(team_member=..., survey_id=...): the rows matched
Matching(table, team_member, survey_id) ==
    SelectSeq(table, LAMBDA e : e.team_member = team_member /\ e.survey_id = survey_id)

\* delete() filtered by survey_id alone
Delete_AnyMember(table, team_member, survey_id) ==
    SelectSeq(table, LAMBDA e : e.survey_id # survey_id)

\* no delete() before the inserts
Delete_Nothing(table, team_member, survey_id) == table

\* delete() without its filter
Delete_WholeTable(table, team_member, survey_id) == <<>>

\* ....delete(): the table without the rows matched
Delete(table, team_member, survey_id) ==
    SelectSeq(table, LAMBDA e : ~(e.team_member = team_member /\ e.survey_id = survey_id))

\* RowAccepted without the test days > 0
RowAccepted_AnyDays(row) ==
    /\ Strip(Get(row, "project", "")) # ""
    /\ "days" \in DOMAIN row

\* if project and days is not None and days > 0
RowAccepted(row) ==
    /\ Strip(Get(row, "project", "")) # ""
    /\ "days" \in DOMAIN row
    /\ row.days > 0

\* Model(survey_id=..., team_member=..., assignment=project, ...)
NewEntry(row, survey_id, user_email, utc_today) ==
    LET notes == Strip(Get(row, "notes", ""))
    IN  [survey_id |-> survey_id,
         team_member |-> user_email,
         assignment |-> Strip(Get(row, "project", "")),
         days_allocated |-> row.days,
         notes |-> IF notes # "" THEN notes ELSE None,
         modified |-> utc_today]

\* for row in rows: ... db.session.add(entry)
NewEntries(rows, survey_id, user_email, utc_today) ==
    LET kept == SelectSeq(rows, RowAccepted)
    IN  [i \in 1 .. Len(kept) |-> NewEntry(kept[i], survey_id, user_email, utc_today)]

\* ValidateDate with today's actual refused (>= for >)
ValidateDate_RejectsToday(entry_type, date_obj, now) ==
    IF entry_type = "forecast"
    THEN IF date_obj < now /\ date_obj # ParseDate(get_next_monday(now))
         THEN "Cannot submit forecast for expired week"
         ELSE ""
    ELSE IF date_obj >= now
         THEN "Cannot submit actuals for future week"
         ELSE ""

\* ValidateDate with the actual's test against the end of today's week
ValidateDate_WholeWeek(entry_type, date_obj, now) ==
    IF entry_type = "forecast"
    THEN IF date_obj < now /\ date_obj # ParseDate(get_next_monday(now))
         THEN "Cannot submit forecast for expired week"
         ELSE ""
    ELSE IF date_obj > now + (6 - Weekday(now))
         THEN "Cannot submit actuals for future week"
         ELSE ""

\* ValidateDate that accepts a forecast for an expired week
ValidateDate_ExpiredForecast(entry_type, date_obj, now) ==
    IF entry_type # "forecast" /\ date_obj > now
    THEN "Cannot submit actuals for future week"
    ELSE ""

\* The validation of the selected date: the error, or "" when it passes.
ValidateDate(entry_type, date_obj, now) ==
    IF entry_type = "forecast"
    THEN LET next_monday == ParseDate(get_next_monday(now))
         IN  IF date_obj < now /\ date_obj # next_monday
             THEN "Cannot submit forecast for expired week"
             ELSE ""
    ELSE IF date_obj > now
         THEN "Cannot submit actuals for future week"
         ELSE ""

SurveyId(selected_date, entry_type) ==
    <<selected_date, IF entry_type = "forecast" THEN "(Forecast)" ELSE "(Actual)">>

\* submit() with the delete() ahead of the validation
SubmitOutcome_DeleteFirst(fe, ce, user_email, data, now, utc_today) ==
    LET entry_type == Get(data, "type", "forecast")
        selected_date == Get(data, "date", <<>>)
        survey_id == SurveyId(selected_date, entry_type)
        fe1 == IF entry_type = "forecast" THEN Delete(fe, user_email, survey_id) ELSE fe
        ce1 == IF entry_type = "forecast" THEN ce ELSE Delete(ce, user_email, survey_id)
        added == NewEntries(Get(data, "rows", <<>>), survey_id, user_email, utc_today)
        error == IF DOMAIN data = {} THEN "No data provided"
                 ELSE IF selected_date = <<>> THEN "Date is required"
                 ELSE ValidateDate(entry_type, ParseDate(selected_date), now)
    IN  IF error # ""
        THEN [code |-> 400, error |-> error, forecast_entry |-> fe1,
              current_entry |-> ce1, deleted |-> <<>>]
        ELSE IF user_email = None /\ added # <<>>
        THEN [code |-> 500, error |-> "IntegrityError", forecast_entry |-> fe,
              current_entry |-> ce, deleted |-> <<>>]
        ELSE [code |-> 200, error |-> "",
              forecast_entry |-> IF entry_type = "forecast" THEN fe1 \o added ELSE fe,
              current_entry |-> IF entry_type = "forecast" THEN ce ELSE ce1 \o added,
              deleted |-> Matching(IF entry_type = "forecast" THEN fe ELSE ce,
                                   user_email, survey_id)]

\* What submit() answers and leaves in the two tables.
SubmitOutcome(fe, ce, user_email, data, now, utc_today) ==
    LET keep(code, error) ==
            [code |-> code, error |-> error, forecast_entry |-> fe,
             current_entry |-> ce, deleted |-> <<>>]
    IN  IF DOMAIN data = {} THEN keep(400, "No data provided")
        ELSE IF Get(data, "date", <<>>) = <<>> THEN keep(400, "Date is required")
        ELSE
        LET selected_date == data.date
            entry_type == Get(data, "type", "forecast")
            rows == Get(data, "rows", <<>>)
            error == ValidateDate(entry_type, ParseDate(selected_date), now)
            survey_id == SurveyId(selected_date, entry_type)
            table == IF entry_type = "forecast" THEN fe ELSE ce
            added == NewEntries(rows, survey_id, user_email, utc_today)
            after == Delete(table, user_email, survey_id) \o added
        IN  IF error # "" THEN keep(400, error)
            \* team_member is NOT NULL: the flush raises, the session rolls back
            ELSE IF user_email = None /\ added # <<>> THEN keep(500, "IntegrityError")
            ELSE [code |-> 200, error |-> "",
                  forecast_entry |-> IF entry_type = "forecast" THEN after ELSE fe,
                  current_entry |-> IF entry_type = "forecast" THEN ce ELSE after,
                  deleted |-> Matching(table, user_email, survey_id)]

----------------------------------------------------------------------------
(* The read side: anchors, has-submission sets, the activity map, the      *)
(* outstanding items and the compliance score.                            *)

\* The dates from `first` to `year_end`, 7 days apart, as date strings
EveryWeek(first, year_end) ==
    [i \in 1 .. ((year_end - first) \div 7) + 1 |-> DateStr(first + 7 * (i - 1))]

\* get_mondays_range that starts after January 1 when that is a Monday
get_mondays_range_AfterNewYear(now) ==
    LET year_start == Ymd2Ord(YearOf(now), 1, 1)
    IN  EveryWeek(year_start + 7 - Weekday(year_start), Ymd2Ord(YearOf(now), 12, 31))

get_mondays_range(now) ==
    LET year_start == Ymd2Ord(YearOf(now), 1, 1)
        days_until_monday == (7 - Weekday(year_start)) % 7
        first_monday == IF Weekday(year_start) = 0 THEN year_start
                        ELSE year_start + days_until_monday
    IN  EveryWeek(first_monday, Ymd2Ord(YearOf(now), 12, 31))

get_fridays_range(now) ==
    LET year_start == Ymd2Ord(YearOf(now), 1, 1)
        days_until_friday == (4 - Weekday(year_start)) % 7
        first_friday == IF Weekday(year_start) = 4 THEN year_start
                        ELSE year_start + days_until_friday
    IN  EveryWeek(first_friday, Ymd2Ord(YearOf(now), 12, 31))

\* Model.query.filter_by(team_member=user_email).all(), then
\* entry.survey_id.split(' ')[0] of each row, as a set
SubmittedDates(table, user_email) ==
    {table[i].survey_id[1] : i \in {j \in 1 .. Len(table) : table[j].team_member = user_email}}

\* GET /api/activity_map
get_activity_map(fe, ce, user_email, now) ==
    LET mondays == get_mondays_range(now)
        fridays == get_fridays_range(now)
        forecast_dates == SubmittedDates(fe, user_email)
        current_dates == SubmittedDates(ce, user_email)
    IN  [forecasts |-> [i \in 1 .. Len(mondays) |->
                           [date |-> mondays[i],
                            status |-> get_date_status(mondays[i], "forecast",
                                                       mondays[i] \in forecast_dates, now),
                            has_entry |-> mondays[i] \in forecast_dates]],
         actuals |-> [i \in 1 .. Len(fridays) |->
                           [date |-> fridays[i],
                            status |-> get_date_status(fridays[i], "actual",
                                                       fridays[i] \in current_dates, now),
                            has_entry |-> fridays[i] \in current_dates]],
         next_monday |-> get_next_monday(now),
         last_friday |-> get_last_friday(now)]

\* Tuple order of two date strings or of two (priority, date) keys
DateStrLess(a, b) ==
    \/ a[1] < b[1]
    \/ a[1] = b[1] /\ a[2] < b[2]
    \/ a[1] = b[1] /\ a[2] = b[2] /\ a[3] < b[3]

\* ItemLess with the dates newest first
ItemLess_NewestFirst(x, y) ==
    \/ x.priority < y.priority
    \/ x.priority = y.priority /\ DateStrLess(y.date, x.date)

ItemLess(x, y) ==
    \/ x.priority < y.priority
    \/ x.priority = y.priority /\ DateStrLess(x.date, y.date)

\* list.sort(key=...): stable, ascending.  An item's place is one more than
\* the number of items that sort before it: those of a smaller key, and
\* those of an equal key that stand before it in the list.
SortItems(items) ==
    LET n == Len(items)
        place == SubSeq([i \in 1 .. n |->
                            1 + Cardinality({j \in 1 .. n :
                                                \/ ItemLess(items[j], items[i])
                                                \/ ~ItemLess(items[i], items[j]) /\ j < i})],
                        1, n)
    IN  [p \in 1 .. n |-> items[CHOOSE i \in 1 .. n : place[i] = p]]

\* get_outstanding_items without the test friday_date <= today
get_outstanding_items_AllFridays(fe, ce, user_email, now) ==
    LET current_dates == SubmittedDates(ce, user_email)
        missing == SelectSeq(get_fridays_range(now),
                             LAMBDA friday : friday \notin current_dates)
        actual_items == [i \in 1 .. Len(missing) |->
                            [date |-> missing[i],
                             week_commencing |-> DateStr(ParseDate(missing[i]) - 4),
                             type |-> "actual", status |-> "missing", priority |-> 1]]
        next_monday == get_next_monday(now)
    IN  SortItems(actual_items \o
                  IF next_monday \notin SubmittedDates(fe, user_email)
                  THEN <<[date |-> next_monday, week_commencing |-> next_monday,
                          type |-> "forecast", status |-> "open", priority |-> 2]>>
                  ELSE <<>>)

\* GET /api/outstanding_items
get_outstanding_items(fe, ce, user_email, now) ==
    LET current_dates == SubmittedDates(ce, user_email)
        fridays == get_fridays_range(now)
        missing == SelectSeq(fridays,
                             LAMBDA friday : ParseDate(friday) <= now /\ friday \notin current_dates)
        actual_items == [i \in 1 .. Len(missing) |->
                            [date |-> missing[i],
                             week_commencing |-> DateStr(ParseDate(missing[i]) - 4),
                             type |-> "actual", status |-> "missing", priority |-> 1]]
        next_monday == get_next_monday(now)
        forecast_dates == SubmittedDates(fe, user_email)
        forecast_items ==
            IF next_monday \notin forecast_dates
            THEN <<[date |-> next_monday, week_commencing |-> next_monday,
                    type |-> "forecast", status |-> "open", priority |-> 2]>>
            ELSE <<>>
    IN  SortItems(actual_items \o forecast_items)

\* GET /api/get_entry
get_entry(fe, ce, user_email, date, entry_type) ==
    LET table == IF entry_type = "forecast" THEN fe ELSE ce
        entries == Matching(table, user_email, SurveyId(date, entry_type))
    IN  [i \in 1 .. Len(entries) |->
            [project |-> entries[i].assignment,
             days |-> entries[i].days_allocated,
             notes |-> IF entries[i].notes = None THEN "" ELSE entries[i].notes]]

\* The most recent `weekday` at or before `now`, and the 7 before it
RecentAnchors(now, weekday) ==
    LET current == now - ((Weekday(now) - weekday) % 7)
        dates == [i \in 1 .. 8 |-> current - 7 * (i - 1)]
        kept == SelectSeq(dates, LAMBDA d : d <= now)
    IN  [i \in 1 .. Len(kept) |-> DateStr(kept[i])]

\* The rows of a member, matched case-insensitively
MemberEntries(table, member_email) ==
    SelectSeq(table, LAMBDA e : Lower(e.team_member) = Lower(member_email))

\* date_part -> the latest modified among the member's rows of that week
Submissions(entries) ==
    LET dates == {entries[i].survey_id[1] : i \in 1 .. Len(entries)}
    IN  [d \in dates |->
            LET ms == {entries[i].modified : i \in {j \in 1 .. Len(entries) :
                                                      entries[j].survey_id[1] = d}}
            IN  CHOOSE m \in ms : \A n \in ms : n <= m]

\* The points of the slots `anchors` given the member's submissions
RECURSIVE SlotPoints(_, _)
SlotPoints(anchors, submissions) ==
    IF anchors = <<>> THEN 0
    ELSE LET anchor == Head(anchors)
             grace_deadline == ParseDate(anchor) + 1
             points == IF anchor \in DOMAIN submissions
                       THEN IF submissions[anchor] <= grace_deadline THEN 10 ELSE 5
                       ELSE 0
         IN  points + SlotPoints(Tail(anchors), submissions)

\* round((total_points / max_points) * 100): Python rounds the double to the
\* nearest integer, ties to even.  The doubles are exact enough for the
\* quotient's rounding to be that of the fraction, except at 23/40, whose
\* double product is 57.49999999999999.
RoundPercent(total_points, max_points) ==
    LET n == 100 * total_points
        q == n \div max_points
        r2 == 2 * (n % max_points)
    IN  IF 40 * total_points = 23 * max_points THEN 57
        ELSE IF r2 > max_points THEN q + 1
        ELSE IF r2 < max_points THEN q
        ELSE IF q % 2 = 0 THEN q ELSE q + 1

\* max that answers its second argument
Max_Second(a, b) == b

Max(a, b) == IF a >= b THEN a ELSE b
Min(a, b) == IF a <= b THEN a ELSE b

calculate_member_score(fe, ce, nudges, member_email, now) ==
    LET recent_mondays == RecentAnchors(now, 0)
        recent_fridays == RecentAnchors(now, 4)
        forecast_submissions == Submissions(MemberEntries(fe, member_email))
        actual_submissions == Submissions(MemberEntries(ce, member_email))
        max_points == 10 * (Len(recent_mondays) + Len(recent_fridays))
        eight_weeks_ago == now - 56
        nudge_count == Cardinality({i \in 1 .. Len(nudges) :
                                      /\ nudges[i].to_email = Lower(member_email)
                                      /\ nudges[i].created >= eight_weeks_ago})
        total_points == Max(0, SlotPoints(recent_mondays, forecast_submissions)
                               + SlotPoints(recent_fridays, actual_submissions)
                               - nudge_count * 2)
        completed(anchors, submissions) ==
            Len(SelectSeq(anchors, LAMBDA a : a \in DOMAIN submissions))
    IN  IF max_points = 0
        THEN [score |-> 100, nudges |-> nudge_count, weeks_completed |-> 0, weeks_total |-> 0]
        ELSE [score |-> Min(100, Max(0, RoundPercent(total_points, max_points))),
              nudges |-> nudge_count,
              weeks_completed |-> completed(recent_mondays, forecast_submissions)
                                  + completed(recent_fridays, actual_submissions),
              weeks_total |-> Len(recent_mondays) + Len(recent_fridays)]

----------------------------------------------------------------------------
(* The state machine                                                       *)

Idle == [op |-> "idle"]

\* The requests that may be in flight together
Requests == {1, 2}

\* No POST /submit is in flight
NoSessions == [r \in Requests |-> [pc |-> "none"]]

Submit(user_email, data) ==
    \E utc_today \in UtcDates(today, tz) :
        \E out \in {SubmitOutcome(forecast_entry, current_entry, user_email, data,
                                  today, utc_today)} :
            /\ Len(out.forecast_entry) + Len(out.current_entry) <= MaxStore
            /\ forecast_entry' = out.forecast_entry
            /\ current_entry' = out.current_entry
            /\ last' = [op |-> "submit", user |-> user_email, data |-> data,
                        code |-> out.code, error |-> out.error,
                        deleted |-> out.deleted]
            /\ UNCHANGED <<today, tz, nudge, session>>

\* POST /submit from one of `callers` with one of `bodies`
SubmitFrom(callers, bodies) ==
    \E user_email \in callers, data \in bodies : Submit(user_email, data)

\* Midnight passes on the server, whose clock started on `first`.
Tick(first) ==
    /\ today < first + MaxDays
    /\ today' = today + 1
    /\ last' = Idle
    /\ UNCHANGED <<tz, forecast_entry, current_entry, nudge, session>>

\* The server starts on `first` in one of `zones`, its tables empty.
Start(first, zones) ==
    /\ today = first
    /\ tz \in zones
    /\ forecast_entry = <<>>
    /\ current_entry = <<>>
    /\ nudge = <<>>
    /\ session = NoSessions
    /\ last = Idle

(* Spec: a server on UTC from Monday 2024-03-11 to Wednesday 2024-03-13;   *)
(* requests vary the caller, the selected date and the type.               *)

Monday11 == Ymd2Ord(2024, 3, 11)

\* No body, a body with no rows, and one row for every date (or none) and type
DateBodies ==
    {<<>>, Body(<<2024, 3, 18>>, "forecast", <<>>)} \cup
    {Body(date, type, <<rowP>>) : date \in DateInputs \cup {<<>>}, type \in TypeInputs}

Init == Start(Monday11, {0})

Next == SubmitFrom({"ann@x", None}, DateBodies) \/ Tick(Monday11)

Spec == Init /\ [][Next]_vars

(* SpecRows: a server on UTC from Friday 2024-03-08; requests vary the     *)
(* caller, the type and the rows, for the week of that Friday.             *)

Friday8 == Ymd2Ord(2024, 3, 8)

RowBodies ==
    {Body(<<2024, 3, 8>>, type, rows) : type \in TypeInputs, rows \in RowLists}

InitRows == Start(Friday8, {0})

NextRows == SubmitFrom(Users, RowBodies) \/ Tick(Friday8)

SpecRows == InitRows /\ [][NextRows]_vars

(* SpecTwice: a server in any zone from Friday 2024-03-08; one caller       *)
(* writes the week of that Friday again, on the same or a later day.       *)

TwiceBodies == {Body(<<2024, 3, 8>>, type, rows) : type \in TypeInputs,
                                                  rows \in {<<rowP>>, <<rowQ>>}}

InitTwice == Start(Friday8, {-1, 0, 1})

NextTwice == SubmitFrom({"ann@x"}, TwiceBodies) \/ Tick(Friday8)

SpecTwice == InitTwice /\ [][NextTwice]_vars

(* SpecStatus: the status classifier applied to every date from            *)
(* 2024-03-01 to 2024-03-25, on every day of the week from Friday          *)
(* 2024-03-08.                                                             *)

StatusDates == {DateStr(d) : d \in Friday8 - 7 .. Friday8 + 17}

Classify ==
    /\ \E date \in StatusDates, entry_type \in TypeInputs, has_entry \in BOOLEAN :
           last' = [op |-> "status", date |-> date, type |-> entry_type,
                    has_entry |-> has_entry,
                    status |-> get_date_status(date, entry_type, has_entry, today)]
    /\ UNCHANGED <<today, tz, forecast_entry, current_entry, nudge, session>>

InitStatus ==
    /\ today \in Friday8 .. Friday8 + 6
    /\ tz = 0
    /\ forecast_entry = <<>>
    /\ current_entry = <<>>
    /\ nudge = <<>>
    /\ session = NoSessions
    /\ last = Idle

NextStatus == Classify

SpecStatus == InitStatus /\ [][NextStatus]_vars

(* SpecItems: GET /api/outstanding_items read on a day at the start, in    *)
(* the middle or at the end of 2024, over stores that one user fills with  *)
(* actuals of past Fridays and forecasts of coming Mondays.                *)

\* GET /api/outstanding_items: 401 without identity, else the items
OutstandingItems(user_email) ==
    /\ last' = IF user_email = None
               THEN [op |-> "outstanding_items", user |-> user_email, code |-> 401,
                     items |-> <<>>]
               ELSE [op |-> "outstanding_items", user |-> user_email, code |-> 200,
                     items |-> get_outstanding_items(forecast_entry, current_entry,
                                                     user_email, today)]
    /\ UNCHANGED <<today, tz, forecast_entry, current_entry, nudge, session>>

\* Wednesday 2024-01-03, Friday 2024-03-08, Monday 2024-03-11, Wednesday
\* 2024-03-13 and Tuesday 2024-12-31
ItemDays ==
    {Ymd2Ord(2024, 1, 3), Ymd2Ord(2024, 3, 8), Ymd2Ord(2024, 3, 11),
     Ymd2Ord(2024, 3, 13), Ymd2Ord(2024, 12, 31)}

ItemBodies ==
    {Body(date, "actual", <<rowP>>) :
        date \in {<<2024, 1, 5>>, <<2024, 3, 1>>, <<2024, 3, 8>>}} \cup
    {Body(date, "forecast", <<rowP>>) :
        date \in {<<2024, 1, 8>>, <<2024, 3, 11>>, <<2024, 3, 18>>, <<2025, 1, 6>>}}

InitItems == \E first \in ItemDays : Start(first, {0})

NextItems ==
    \/ SubmitFrom({"ann@x"}, ItemBodies)
    \/ \E user_email \in Users \cup {None} : OutstandingItems(user_email)

SpecItems == InitItems /\ [][NextItems]_vars

(* SpecScore: calculate_member_score applied to stores drawn by how many   *)
(* of the last Mondays hold a forecast written on its Monday, how many of  *)
(* the last Fridays hold an actual written in time, how many of the oldest *)
(* Fridays of the window hold an actual written today, and how many nudges *)
(* the member got.                                                         *)

MaxNudges == 4    \* nudges of the last 8 weeks in a drawn nudge table

\* calculate_member_score(member_email), as get_team_scores calls it
MemberScore(member_email) ==
    /\ last' = [op |-> "score", member |-> member_email,
                result |-> calculate_member_score(forecast_entry, current_entry, nudge,
                                                  member_email, today)]
    /\ UNCHANGED <<today, tz, forecast_entry, current_entry, nudge, session>>

\* Wednesday 2024-01-03, Friday 2024-03-08 and Wednesday 2024-03-13
ScoreDays == {Ymd2Ord(2024, 1, 3), Ymd2Ord(2024, 3, 8), Ymd2Ord(2024, 3, 13)}

\* The most recent `weekday` at or before `now`
MostRecent(now, weekday) == now - ((Weekday(now) - weekday) % 7)

\* A row of one project as submit() inserts it
ScoreRow(team_member, date, kind, written) ==
    [survey_id |-> <<DateStr(date), kind>>, team_member |-> team_member,
     assignment |-> "p", days_allocated |-> 1, notes |-> None, modified |-> written]

\* Forecasts of the `f` last Mondays, each written on its Monday by Ann@x
ScoreForecasts(now, f) ==
    [i \in 1 .. f |->
        ScoreRow("Ann@x", MostRecent(now, 0) - 7 * (i - 1), "(Forecast)",
                 MostRecent(now, 0) - 7 * (i - 1))]

\* Actuals of the `a` last Fridays, each written the day after its Friday
\* (the last one today at the latest), and of the `l` oldest Fridays of the
\* last 8, each written today
ScoreActuals(now, a, l) ==
    [i \in 1 .. a |->
        ScoreRow("ann@x", MostRecent(now, 4) - 7 * (i - 1), "(Actual)",
                 Min(now, MostRecent(now, 4) - 7 * (i - 1) + 1))] \o
    [i \in 1 .. l |->
        ScoreRow("ann@x", MostRecent(now, 4) - 7 * (8 - i), "(Actual)", now)]

\* A row of table nudge; from_name, a display string of the team list, is
\* left out
NudgeRow(from_email, to_email, message, created) ==
    [from_email |-> from_email, to_email |-> to_email, message |-> message,
     created |-> created, dismissed |-> FALSE]

\* `old` nudges of 57 days ago, then `n` nudges from 56 days ago on, a week apart
ScoreNudges(now, old, n) ==
    [i \in 1 .. old |-> NudgeRow("boss@x", "ann@x", "knock", now - 57)] \o
    [i \in 1 .. n |-> NudgeRow("boss@x", "ann@x", "knock", now - 56 + 7 * (i - 1))]

InitScore ==
    /\ today \in ScoreDays
    /\ tz = 0
    /\ \E f \in 0 .. 8 : forecast_entry = ScoreForecasts(today, f)
    /\ \E a \in 0 .. 8, l \in 0 .. 7 : a + l <= 8 /\ current_entry = ScoreActuals(today, a, l)
    /\ \E old \in 0 .. 1, n \in 0 .. MaxNudges : nudge = ScoreNudges(today, old, n)
    /\ session = NoSessions
    /\ last = Idle

NextScore == \E member_email \in Users : MemberScore(member_email)

SpecScore == InitScore /\ [][NextScore]_vars

(* SpecNudge: POST /api/send_nudge and POST /api/dismiss_nudge on Friday   *)
(* 2024-03-08.  The team list dbo.EMEA_team_list, an external table, has   *)
(* boss@x with the one report Ann@x, and Ann@x with no reports.  A nudge's  *)
(* id is its position in the table.                                        *)

MaxLog == 2       \* rows the nudge table holds

\* get_direct_reports(email): the emails of the reports of the team-list row
\* whose Email is `email` in any case
get_direct_reports(email) ==
    IF Lower(email) = "boss@x" THEN {"Ann@x"} ELSE {}

\* is_authorized that lets anyone nudge anyone
is_authorized_Anyone(user_email, to_email) == TRUE

\* any(r['email'].lower() == to_email.lower() for r in direct_reports)
is_authorized(user_email, to_email) ==
    \E r \in get_direct_reports(user_email) : Lower(r) = Lower(to_email)

\* random.choice(nudge_messages): two of the eight messages
NudgeMessages == {"lonely", "knock"}

\* POST /api/send_nudge
SendNudge(user_email, data) ==
    LET to_email == Get(data, "to_email", None)
        answer(code) == /\ last' = [op |-> "send_nudge", user |-> user_email,
                                    data |-> data, code |-> code]
                        /\ nudge' = nudge
    IN  /\ IF user_email = None THEN answer(401)
           ELSE IF data = <<>> \/ to_email \in {None, ""} THEN answer(400)
           ELSE IF ~is_authorized(user_email, to_email) THEN answer(403)
           ELSE /\ Len(nudge) < MaxLog
                /\ \E message \in NudgeMessages, utc_today \in UtcDates(today, tz) :
                       nudge' = Append(nudge, NudgeRow(Lower(user_email), Lower(to_email),
                                                       message, utc_today))
                /\ last' = [op |-> "send_nudge", user |-> user_email, data |-> data,
                            code |-> 200]
        /\ UNCHANGED <<today, tz, forecast_entry, current_entry, session>>

\* POST /api/dismiss_nudge
DismissNudge(user_email, data) ==
    LET nudge_id == Get(data, "nudge_id", 0)
        found == nudge_id \in 1 .. Len(nudge) /\ nudge[nudge_id].to_email = Lower(user_email)
        code == IF user_email = None THEN 401
                ELSE IF nudge_id = 0 THEN 400
                ELSE IF ~found THEN 404 ELSE 200
    IN  /\ nudge' = IF code = 200 THEN [nudge EXCEPT ![nudge_id].dismissed = TRUE]
                    ELSE nudge
        /\ last' = [op |-> "dismiss_nudge", user |-> user_email, data |-> data,
                    code |-> code]
        /\ UNCHANGED <<today, tz, forecast_entry, current_entry, session>>

NudgeCallers == {"boss@x", "ann@x", None}

SendBodies == {<<>>} \cup {[to_email |-> t] : t \in {"ann@x", "Ann@x", "boss@x", ""}}

DismissBodies == {<<>>} \cup {[nudge_id |-> k] : k \in 1 .. MaxLog + 1}

InitNudge == Start(Friday8, {0})

NextNudge ==
    \/ \E user_email \in NudgeCallers, data \in SendBodies : SendNudge(user_email, data)
    \/ \E user_email \in NudgeCallers, data \in DismissBodies : DismissNudge(user_email, data)

SpecNudge == InitNudge /\ [][NextNudge]_vars

(* SpecDates: the date helpers called on every day from 2023-12-11 to      *)
(* 2024-01-21 and on the first and the last day of the years 2020 to 2027  *)
(* (January 1 is a Friday in 2021 and 2027, a Monday in 2024).             *)

HelperDays ==
    Ymd2Ord(2023, 12, 11) .. Ymd2Ord(2024, 1, 21) \cup
    {Ymd2Ord(y, 1, 1) : y \in 2020 .. 2027} \cup {Ymd2Ord(y, 12, 31) : y \in 2020 .. 2027}

\* One of the four date helpers is called and answers
CallHelper(helper) ==
    /\ last' = [op |-> helper,
                value |-> CASE helper = "get_next_monday" -> get_next_monday(today)
                            [] helper = "get_last_friday" -> get_last_friday(today)
                            [] helper = "get_mondays_range" -> get_mondays_range(today)
                            [] helper = "get_fridays_range" -> get_fridays_range(today)]
    /\ UNCHANGED <<today, tz, forecast_entry, current_entry, nudge, session>>

InitDates ==
    /\ today \in HelperDays
    /\ tz = 0
    /\ forecast_entry = <<>>
    /\ current_entry = <<>>
    /\ nudge = <<>>
    /\ session = NoSessions
    /\ last = Idle

NextDates ==
    \E helper \in {"get_next_monday", "get_last_friday",
                   "get_mondays_range", "get_fridays_range"} : CallHelper(helper)

SpecDates == InitDates /\ [][NextDates]_vars

(* SpecWritten: a server in any zone from Friday 2024-03-08 to Wednesday   *)
(* 2024-03-13; one caller writes forecasts and actuals for the Friday and  *)
(* the Mondays around those days.  The selected date is validated against  *)
(* the local day and the rows are stamped with the UTC day.                *)

WrittenBodies ==
    {Body(date, type, <<rowP>>) :
         date \in {<<2024, 3, 8>>, <<2024, 3, 11>>, <<2024, 3, 18>>},
         type \in TypeInputs}

InitWritten == Start(Friday8, {-1, 0, 1})

NextWritten == SubmitFrom({"ann@x"}, WrittenBodies) \/ Tick(Monday11)

SpecWritten == InitWritten /\ [][NextWritten]_vars

(* SpecRace: two POST /submit for the actuals of Friday 2024-03-08 in      *)
(* flight together, each in its own db.session.  The tables are SQLite     *)
(* files: the DELETE of a session takes the file's write lock, which the   *)
(* session holds until it commits or rolls back; a DELETE that finds the   *)
(* lock taken waits for it or gives up with "database is locked"; other    *)
(* connections read the committed rows.  The tables below are the          *)
(* committed rows.                                                         *)

\* The write lock without effect: any session may write at any time
WriteLockFree_NoLock(s, r, bind) == TRUE

\* No session other than r holds the write lock of the file `bind`
WriteLockFree(s, r, bind) ==
    \A q \in Requests \ {r} : ~(s[q].pc = "deleted" /\ s[q].bind = bind)

\* What submit() answers before it touches the store: an error, or ""
Rejection(data, now) ==
    IF DOMAIN data = {} THEN "No data provided"
    ELSE IF Get(data, "date", <<>>) = <<>> THEN "Date is required"
    ELSE ValidateDate(Get(data, "type", "forecast"), ParseDate(data.date), now)

\* The answer of POST /submit to `user_email` for `data`
Answer(user_email, data, code, error, deleted) ==
    [op |-> "submit", user |-> user_email, data |-> data, code |-> code,
     error |-> error, deleted |-> deleted]

\* The committed table of a request's kind
TableOf(s) == IF s.bind = "forecast" THEN forecast_entry ELSE current_entry

\* submit() up to the try block: the request is read and validated
Receive(r, user_email, data) ==
    /\ session[r].pc = "none"
    /\ IF Rejection(data, today) # ""
       THEN /\ last' = Answer(user_email, data, 400, Rejection(data, today), <<>>)
            /\ session' = session
       ELSE /\ session' = [session EXCEPT ![r] =
                              [pc |-> "validated", user |-> user_email, data |-> data,
                               bind |-> Get(data, "type", "forecast"), deleted |-> <<>>]]
            /\ last' = last
    /\ UNCHANGED <<today, tz, forecast_entry, current_entry, nudge>>

\* Model.query.filter_by(...).delete(): the session takes the write lock and
\* deletes, in its transaction, the rows that match
DeleteStep(r) ==
    /\ session[r].pc = "validated"
    /\ WriteLockFree(session, r, session[r].bind)
    /\ session' = [session EXCEPT ![r].pc = "deleted",
                                  ![r].deleted =
                                      Matching(TableOf(session[r]), session[r].user,
                                               SurveyId(session[r].data.date, session[r].bind))]
    /\ UNCHANGED <<today, tz, forecast_entry, current_entry, nudge, last>>

\* The DELETE gives up on a lock another session holds: rollback, 500
Busy(r) ==
    /\ session[r].pc = "validated"
    /\ ~WriteLockFree(session, r, session[r].bind)
    /\ session' = [session EXCEPT ![r] = [pc |-> "none"]]
    /\ last' = Answer(session[r].user, session[r].data, 500, "database is locked", <<>>)
    /\ UNCHANGED <<today, tz, forecast_entry, current_entry, nudge>>

\* The inserts and db.session.commit(): the transaction's deletes and
\* inserts become the committed rows, and the lock is released
Commit(r) ==
    /\ session[r].pc = "deleted"
    /\ \E utc_today \in UtcDates(today, tz) :
           LET s == session[r]
               added == NewEntries(Get(s.data, "rows", <<>>),
                                   SurveyId(s.data.date, s.bind), s.user, utc_today)
               after == SelectSeq(TableOf(s),
                                  LAMBDA e : \A i \in 1 .. Len(s.deleted) : s.deleted[i] # e)
                            \o added
           IN  /\ forecast_entry' = IF s.bind = "forecast" THEN after ELSE forecast_entry
               /\ current_entry' = IF s.bind = "forecast" THEN current_entry ELSE after
               /\ last' = Answer(s.user, s.data, 200, "", s.deleted)
    /\ session' = [session EXCEPT ![r] = [pc |-> "none"]]
    /\ UNCHANGED <<today, tz, nudge>>

\* An exception inside the try block: db.session.rollback(), 500
Fail(r) ==
    /\ session[r].pc = "deleted"
    /\ session' = [session EXCEPT ![r] = [pc |-> "none"]]
    /\ last' = Answer(session[r].user, session[r].data, 500, "store failure", <<>>)
    /\ UNCHANGED <<today, tz, forecast_entry, current_entry, nudge>>

RaceA == <<rowP, rowQ>>
RaceB == <<rowQ>>

RaceBodies == {<<>>} \cup {Body(<<2024, 3, 8>>, "actual", rows) : rows \in {RaceA, RaceB}}

InitRace == Start(Friday8, {0})

NextRace ==
    \E r \in Requests :
        \/ \E data \in RaceBodies : Receive(r, "ann@x", data)
        \/ DeleteStep(r)
        \/ Busy(r)
        \/ Commit(r)
        \/ Fail(r)

SpecRace == InitRace /\ [][NextRace]_vars

----------------------------------------------------------------------------
(* Claims.  A request's date is the one `today` of the state it is in:     *)
(* Tick forgets the last request.                                          *)

\* The last request was a POST /submit whose body names a date.
DatedSubmit == last.op = "submit" /\ "date" \in DOMAIN last.data

SelectedDate == ParseDate(last.data.date)

Wednesday13 == Ymd2Ord(2024, 3, 13)

\* The Monday among now, ..., now + 6
TheMondayFrom(now) == CHOOSE d \in now .. now + 6 : Weekday(d) = 0

\* The rows of `table` outside the week (team_member, survey_id)
OtherWeeks(table, team_member, survey_id) ==
    SelectSeq(table, LAMBDA e : e.team_member # team_member \/ e.survey_id # survey_id)

\* A body row that has a project other than blanks and more than zero days
Positive(row) ==
    /\ "project" \in DOMAIN row
    /\ row.project \notin {"", " "}
    /\ "days" \in DOMAIN row
    /\ row.days >= 1

\* What GET /api/get_entry is to return for a week whose rows were `rows`
Expected(rows) ==
    LET kept == SelectSeq(rows, Positive)
    IN  [i \in 1 .. Len(kept) |->
            [project |-> Strip(kept[i].project), days |-> kept[i].days,
             notes |-> Strip(kept[i].notes)]]

\* Stored rows as GET /api/get_entry shows them
EntryView(entries) ==
    [i \in 1 .. Len(entries) |->
        [project |-> entries[i].assignment, days |-> entries[i].days_allocated,
         notes |-> IF entries[i].notes = None THEN "" ELSE entries[i].notes]]

\* The write dates of the rows of week (team_member, survey_id) in fe, ce
WrittenOn(fe, ce, team_member, survey_id) ==
    LET rows == Matching(fe, team_member, survey_id) \o Matching(ce, team_member, survey_id)
    IN  {rows[i].modified : i \in 1 .. Len(rows)}

\* What a user reads from the tables fe, ce on day `now`
Views(fe, ce, user_email, now) ==
    [forecast |-> get_entry(fe, ce, user_email, <<2024, 3, 8>>, "forecast"),
     actual |-> get_entry(fe, ce, user_email, <<2024, 3, 8>>, "actual"),
     map |-> get_activity_map(fe, ce, user_email, now),
     items |-> get_outstanding_items(fe, ce, user_email, now)]

Score(fe, ce, user_email, now) == calculate_member_score(fe, ce, nudge, user_email, now).score

\* C1 (as claimed): a forecast submission is rejected unless its date is
\* nextMonday(today).
C1_ForecastOnlyNextMonday ==
    (DatedSubmit /\ last.data.type = "forecast" /\ SelectedDate # TheMondayFrom(today))
        => last.code = 400

\* C2: an actual submission is rejected (400) if and only if its date is
\* after today; any date at or before today, however old, passes, and is
\* answered 200 when the caller has an identity.
C2_ActualRejectedIffFuture ==
    (DatedSubmit /\ last.data.type = "actual") =>
        /\ (last.code = 400) <=> (SelectedDate > today)
        /\ (last.code = 400) => last.error = "Cannot submit actuals for future week"
        /\ (SelectedDate <= today /\ last.user # None) => last.code = 200

\* C2 witness: on 2024-03-11 or later, an actual for Friday 2024-03-01 is stored.
C2_OldActualAccepted ==
    /\ DatedSubmit /\ last.data.type = "actual" /\ last.code = 200
    /\ last.data.date = <<2024, 3, 1>>
    /\ \E i \in 1 .. Len(current_entry) : current_entry[i].survey_id[1] = <<2024, 3, 1>>

\* C3 (as claimed): on Wednesday 2024-03-13 an actual for 2024-03-15 is
\* accepted and an actual for 2024-03-22 is rejected.
C3_ScenarioAsClaimed ==
    (today = Wednesday13 /\ DatedSubmit /\ last.data.type = "actual") =>
        /\ (last.data.date = <<2024, 3, 15>>) => last.code # 400
        /\ (last.data.date = <<2024, 3, 22>>) => last.code = 400

\* C3 (amended): on Wednesday 2024-03-13 the actuals for 2024-03-15 and for
\* 2024-03-22 are both rejected, 2024-03-15 being two days ahead; the actual
\* for the last Friday before, 2024-03-08, is accepted.
C3_Scenario ==
    (today = Wednesday13 /\ DatedSubmit /\ last.data.type = "actual") =>
        /\ (last.data.date \in {<<2024, 3, 15>>, <<2024, 3, 22>>}) => last.code = 400
        /\ (last.data.date = <<2024, 3, 8>> /\ last.user # None) => last.code = 200

\* C3 witness: the actual for 2024-03-15 rejected on 2024-03-13.
C3_FridayAheadRejected ==
    /\ today = Wednesday13 /\ DatedSubmit /\ last.data.type = "actual"
    /\ last.data.date = <<2024, 3, 15>> /\ last.code = 400

\* C4: a POST /submit answered with a validation error leaves both entry
\* tables as they were.
C4_RejectedLeavesStore ==
    [][(last'.op = "submit" /\ last'.code = 400) =>
           (forecast_entry' = forecast_entry /\ current_entry' = current_entry)]_vars

\* C4 witness: a submission rejected for a week whose rows are in the store.
C4_RejectedOverStoredWeek ==
    /\ DatedSubmit /\ last.code = 400
    /\ Matching(IF last.data.type = "forecast" THEN forecast_entry ELSE current_entry,
                last.user, SurveyId(last.data.date, last.data.type)) # <<>>

\* C5: an accepted submission leaves, for its (user, kind, week), exactly
\* the rows of its body that have a project and more than zero days, in the
\* body's order, whatever the week held before, and leaves the rows of
\* every other (user, kind, week) as they were.
C5_Overwrite ==
    [][(last'.op = "submit" /\ last'.code = 200) =>
           LET user == last'.user
               date == last'.data.date
               type == last'.data.type
               sid == <<date, IF type = "forecast" THEN "(Forecast)" ELSE "(Actual)">>
           IN  /\ get_entry(forecast_entry', current_entry', user, date, type)
                      = Expected(last'.data.rows)
               /\ OtherWeeks(forecast_entry', user, sid) = OtherWeeks(forecast_entry, user, sid)
               /\ OtherWeeks(current_entry', user, sid) = OtherWeeks(current_entry, user, sid)]_vars

\* C5 witness: a week that held rows is resubmitted with other rows while
\* another week is in the store.
C5_Resubmitted ==
    /\ DatedSubmit /\ last.code = 200 /\ last.deleted # <<>>
    /\ Expected(last.data.rows) # <<>>
    /\ Expected(last.data.rows) # EntryView(last.deleted)
    /\ Len(forecast_entry) + Len(current_entry) > Len(Expected(last.data.rows))

\* C6: every stored row has a project and more than zero days.
C6_StoredRowsPositive ==
    \A table \in {forecast_entry, current_entry} :
        \A i \in 1 .. Len(table) :
            table[i].days_allocated > 0 /\ table[i].assignment \notin {"", " "}

\* C6 witness: a body with a blank project and a row without a project,
\* of which only the valid row is stored.
C6_InvalidRowsDropped ==
    /\ DatedSubmit /\ last.code = 200
    /\ Len(last.data.rows) > Len(Expected(last.data.rows))
    /\ Expected(last.data.rows) # <<>>
    /\ get_entry(forecast_entry, current_entry, last.user, last.data.date, last.data.type)
           = Expected(last.data.rows)

\* The step resubmits, accepted, the rows the week already holds.
SameRowsAgain ==
    /\ last'.op = "submit" /\ last'.code = 200
    /\ get_entry(forecast_entry, current_entry, last'.user, last'.data.date, last'.data.type)
           = Expected(last'.data.rows)

\* C7 (as claimed): submitting the rows a week already holds leaves what
\* every user reads (rows, calendar, outstanding items, score) as it was
\* after the first submission, also on a later day.
C7_IdempotentAsClaimed ==
    [][SameRowsAgain =>
           \A u \in Users :
               /\ Views(forecast_entry', current_entry', u, today')
                      = Views(forecast_entry, current_entry, u, today')
               /\ Score(forecast_entry', current_entry', u, today')
                      = Score(forecast_entry, current_entry, u, today')]_vars

\* C7 (amended): the rows, the calendar and the outstanding items are as
\* after the first submission; the score is too when the second write is
\* dated as the first.
C7_Idempotent ==
    [][SameRowsAgain =>
           \A u \in Users :
               /\ Views(forecast_entry', current_entry', u, today')
                      = Views(forecast_entry, current_entry, u, today')
               /\ (\A i \in 1 .. Len(last'.deleted) :
                       WrittenOn(forecast_entry', current_entry', last'.user,
                                 last'.deleted[i].survey_id) = {last'.deleted[i].modified})
                  => Score(forecast_entry', current_entry', u, today')
                         = Score(forecast_entry, current_entry, u, today')]_vars

\* C7 witness: a week's rows submitted again, with a later write date.
C7_SubmittedTwice ==
    /\ DatedSubmit /\ last.code = 200 /\ last.deleted # <<>>
    /\ EntryView(last.deleted) = Expected(last.data.rows)
    /\ \E m \in WrittenOn(forecast_entry, current_entry, last.user, last.deleted[1].survey_id) :
           m > last.deleted[1].modified

\* C8 (as claimed): a POST /submit without a caller identity is answered 401.
C8_Unauthenticated401 ==
    (last.op = "submit" /\ last.user = None) => last.code = 401

\* C9 (as claimed): two identities that differ in case only read the same
\* activity map, outstanding items and score.
C9_CaseInsensitiveViews ==
    \A u \in Users, v \in Users :
        Lower(u) = Lower(v) =>
            /\ get_activity_map(forecast_entry, current_entry, u, today)
                   = get_activity_map(forecast_entry, current_entry, v, today)
            /\ get_outstanding_items(forecast_entry, current_entry, u, today)
                   = get_outstanding_items(forecast_entry, current_entry, v, today)
            /\ Score(forecast_entry, current_entry, u, today)
                   = Score(forecast_entry, current_entry, v, today)

\* C10: the classifier answers one of the four statuses, by the rule table:
\* green with an entry; else a forecast is blue on the Monday of
\* today..today+6 and gray otherwise; an actual is gray after today and red
\* at or before it.
C10_StatusRuleTable ==
    last.op = "status" =>
        /\ last.status \in {"green", "blue", "gray", "red"}
        /\ last.status = "green" <=> last.has_entry
        /\ last.status = "blue" <=>
               (~last.has_entry /\ last.type = "forecast"
                /\ ParseDate(last.date) = TheMondayFrom(today))
        /\ last.status = "red" <=>
               (~last.has_entry /\ last.type = "actual" /\ ParseDate(last.date) <= today)

\* C10 witness: today's own date without an actual is red.
C10_TodayActualMissing ==
    /\ last.op = "status" /\ last.type = "actual" /\ ~last.has_entry
    /\ ParseDate(last.date) = today /\ last.status = "red"

\* The last request was a GET /api/outstanding_items answered with a list.
ItemsRead == last.op = "outstanding_items" /\ last.code = 200

ItemsOf(type) == SelectSeq(last.items, LAMBDA x : x.type = type)

\* The date strings of the 8 Fridays among now - 55, ..., now
LastFridays(now) == {DateStr(d) : d \in {x \in now - 55 .. now : Weekday(x) = 4}}

\* C11 (as claimed): the resolver lists at most 8 actual items, all of them
\* among the 8 most recent Fridays at or before today.
C11_ActualLookBack ==
    ItemsRead =>
        /\ Len(ItemsOf("actual")) <= 8
        /\ \A i \in 1 .. Len(ItemsOf("actual")) :
               ItemsOf("actual")[i].date \in LastFridays(today)

\* The rows of `table` the reader owns for the date string `date`
OwnRows(table, date) ==
    SelectSeq(table, LAMBDA e : e.team_member = last.user /\ e.survey_id[1] = date)

\* C12: the resolver lists at most one forecast item, that of
\* nextMonday(today) and only when the reader has no forecast row for it,
\* and every item is for a week the classifier, on the same day and rows,
\* answers red (Missing) or blue (OpenForInput) for.
C12_ItemsOpenOrMissing ==
    ItemsRead =>
        /\ Len(ItemsOf("forecast")) <= 1
        /\ \A i \in 1 .. Len(ItemsOf("forecast")) :
               /\ ParseDate(ItemsOf("forecast")[i].date) = TheMondayFrom(today)
               /\ OwnRows(forecast_entry, ItemsOf("forecast")[i].date) = <<>>
        /\ \A i \in 1 .. Len(last.items) :
               LET x == last.items[i]
                   table == IF x.type = "forecast" THEN forecast_entry ELSE current_entry
               IN  get_date_status(x.date, x.type, OwnRows(table, x.date) # <<>>, today)
                       = (IF x.type = "forecast" THEN "blue" ELSE "red")

\* C12 witness: a list with the forecast item and a missing actual, read by
\* a user who has submitted another Friday, which the list leaves out.
C12_OpenAndMissingListed ==
    /\ ItemsRead /\ ItemsOf("forecast") # <<>> /\ ItemsOf("actual") # <<>>
    /\ \E i \in 1 .. Len(current_entry) :
           /\ current_entry[i].team_member = last.user
           /\ \A j \in 1 .. Len(last.items) :
                  last.items[j].date # current_entry[i].survey_id[1]

\* C13: the list is ascending by (priority, date): the actual items, of
\* priority 1 and oldest Friday first, come before the forecast item, of
\* priority 2; an actual item's week_commencing is its Friday less 4 days.
C13_ItemsSorted ==
    ItemsRead =>
        /\ \A i \in 1 .. Len(last.items), j \in 1 .. Len(last.items) :
               i < j =>
                   \/ last.items[i].priority < last.items[j].priority
                   \/ /\ last.items[i].priority = last.items[j].priority
                      /\ ParseDate(last.items[i].date) < ParseDate(last.items[j].date)
        /\ \A i \in 1 .. Len(last.items) :
               /\ last.items[i].type = "actual" =>
                      /\ last.items[i].priority = 1
                      /\ Weekday(ParseDate(last.items[i].date)) = 4
                      /\ ParseDate(last.items[i].week_commencing)
                             = ParseDate(last.items[i].date) - 4
               /\ last.items[i].type = "forecast" => last.items[i].priority = 2

\* C13 witness: two missing Fridays, the older first, then the forecast.
C13_ActualsThenForecast ==
    /\ ItemsRead /\ Len(last.items) >= 3
    /\ last.items[1].type = "actual" /\ last.items[2].type = "actual"
    /\ ParseDate(last.items[1].date) < ParseDate(last.items[2].date)
    /\ last.items[Len(last.items)].type = "forecast"

\* The last request was a score computed for a member.
Scored == last.op = "score"

\* C14: the score is an integer from 0 to 100 and weeks_completed is at
\* most weeks_total, whatever the rows, their write dates and the nudges.
C14_ScoreBounded ==
    Scored =>
        /\ last.result.score \in 0 .. 100
        /\ last.result.weeks_completed \in 0 .. last.result.weeks_total

\* C14 witness: a member with no points and nudges to deduct, scored 0.
C14_NudgedBelowZero ==
    /\ Scored /\ last.result.nudges > 0 /\ last.result.weeks_completed = 0
    /\ last.result.score = 0

\* The dates of the 8 last `weekday`s at or before today
RefSlots(weekday) == {d \in today - 55 .. today : Weekday(d) = weekday}

\* The write dates of the scored member's rows of `table` for the week of d
RefWrites(table, d) ==
    {table[i].modified : i \in {j \in 1 .. Len(table) :
                                  /\ Lower(table[j].team_member) = Lower(last.member)
                                  /\ ParseDate(table[j].survey_id[1]) = d}}

RefOnTime(table, weekday) ==
    {d \in RefSlots(weekday) : /\ RefWrites(table, d) # {}
                               /\ \A w \in RefWrites(table, d) : w <= d + 1}

RefLate(table, weekday) ==
    {d \in RefSlots(weekday) : \E w \in RefWrites(table, d) : w > d + 1}

RefNudges ==
    Cardinality({i \in 1 .. Len(nudge) : /\ nudge[i].to_email = Lower(last.member)
                                        /\ nudge[i].created >= today - 56})

RefTotal ==
    LET sum == 10 * (Cardinality(RefOnTime(forecast_entry, 0))
                     + Cardinality(RefOnTime(current_entry, 4)))
               + 5 * (Cardinality(RefLate(forecast_entry, 0))
                      + Cardinality(RefLate(current_entry, 4)))
               - 2 * RefNudges
    IN  IF sum < 0 THEN 0 ELSE sum

\* 100 * RefTotal / 160 rounded to the nearest integer, a half to the even one
RefScore ==
    LET q == (100 * RefTotal) \div 160
        r == (100 * RefTotal) % 160
    IN  IF r > 80 \/ (r = 80 /\ q % 2 = 1) THEN q + 1 ELSE q

\* C15 (as claimed): the score is the reference formula's: 10 points for a
\* slot written by its anchor + 1 day, 5 for one written later, 0 for an
\* empty one, less 2 per nudge of the last 8 weeks, not below 0, as a
\* rounded percentage of 10 points per slot; both written kinds of slot
\* count as completed.
C15_ReferenceFormula ==
    Scored =>
        /\ last.result.score = RefScore
        /\ last.result.nudges = RefNudges
        /\ last.result.weeks_completed
               = Cardinality(RefOnTime(forecast_entry, 0)) + Cardinality(RefLate(forecast_entry, 0))
                 + Cardinality(RefOnTime(current_entry, 4)) + Cardinality(RefLate(current_entry, 4))

\* The dates of today's calendar year among the 8 last `weekday`s
RefSlotsOfYear(weekday) == {d \in RefSlots(weekday) : YearOf(d) = YearOf(today)}

\* C19 (as claimed): the scored slots are the last 8 Mondays and the last 8
\* Fridays at or before today that fall in today's calendar year, so that
\* weeks_total is below 16 at the start of a year.
C19_SlotsOfTheYear ==
    Scored =>
        last.result.weeks_total
            = Cardinality(RefSlotsOfYear(0)) + Cardinality(RefSlotsOfYear(4))

\* to_email is, in some case, a report of the team-list row of user_email
Manages(user_email, to_email) ==
    user_email \in {"boss@x"} /\ to_email \in {"ann@x", "Ann@x"}

\* C16: a step adds a nudge row only as a POST /api/send_nudge whose caller
\* manages to_email, the row naming both in lower case; an identified
\* caller who does not manage the to_email of the request is answered 403;
\* every answer other than success leaves the nudge table as it was; and no
\* step removes a row or changes more of a row than its dismissed flag, from
\* FALSE to TRUE.
C16_NudgeOnlyByManager ==
    [][/\ Len(nudge') >= Len(nudge)
       /\ \A i \in 1 .. Len(nudge) :
              /\ [nudge'[i] EXCEPT !.dismissed = FALSE] = [nudge[i] EXCEPT !.dismissed = FALSE]
              /\ nudge[i].dismissed => nudge'[i].dismissed
       /\ Len(nudge') > Len(nudge) =>
              /\ last'.op = "send_nudge" /\ last'.code = 200
              /\ Manages(last'.user, last'.data.to_email)
              /\ Len(nudge') = Len(nudge) + 1
              /\ nudge'[Len(nudge')].from_email = "boss@x"
              /\ nudge'[Len(nudge')].to_email = "ann@x"
              /\ ~nudge'[Len(nudge')].dismissed
       /\ last'.op = "send_nudge" =>
              /\ (/\ last'.user # None
                  /\ Get(last'.data, "to_email", "") # ""
                  /\ ~Manages(last'.user, last'.data.to_email)) => last'.code = 403
              /\ last'.code # 200 => nudge' = nudge]_vars

\* C16 witness: a nudge refused with 403 while the table holds a dismissed
\* nudge, which stays.
C16_RefusedWithLogKept ==
    /\ last.op = "send_nudge" /\ last.code = 403
    /\ \E i \in 1 .. Len(nudge) : nudge[i].dismissed

\* C17: get_next_monday answers a Monday from today to today + 6, today
\* itself on a Monday, hence the one Monday of those 7 days; get_last_friday
\* answers a Friday from today - 6 to today, today itself on a Friday.
C17_NextMondayLastFriday ==
    /\ last.op = "get_next_monday" =>
           /\ Weekday(ParseDate(last.value)) = 0
           /\ ParseDate(last.value) \in today .. today + 6
           /\ Weekday(today) = 0 => ParseDate(last.value) = today
           /\ \A d \in today .. today + 6 : Weekday(d) = 0 => d = ParseDate(last.value)
           /\ DateStr(ParseDate(last.value)) = last.value
    /\ last.op = "get_last_friday" =>
           /\ Weekday(ParseDate(last.value)) = 4
           /\ ParseDate(last.value) \in today - 6 .. today
           /\ Weekday(today) = 4 => ParseDate(last.value) = today
           /\ DateStr(ParseDate(last.value)) = last.value

\* C17 witness: on Monday 2024-01-01 the next Monday is that day.
C17_MondayIsItsOwn ==
    /\ last.op = "get_next_monday" /\ today = Ymd2Ord(2024, 1, 1)
    /\ last.value = <<2024, 1, 1>>

\* The days of today's calendar year that fall on `weekday`
DaysOfYear(weekday) ==
    {d \in Ymd2Ord(YearOf(today), 1, 1) .. Ymd2Ord(YearOf(today), 12, 31) :
        Weekday(d) = weekday}

\* `dates` lists exactly the days of `days`, ascending and 7 days apart
ListsWeekly(dates, days) ==
    /\ {ParseDate(dates[i]) : i \in 1 .. Len(dates)} = days
    /\ \A i \in 1 .. Len(dates) : DateStr(ParseDate(dates[i])) = dates[i]
    /\ \A i \in 1 .. Len(dates) - 1 : ParseDate(dates[i + 1]) = ParseDate(dates[i]) + 7

\* C18: get_mondays_range lists exactly the Mondays of today's calendar
\* year, January 1 among them when it is one, ascending and 7 days apart;
\* get_fridays_range does so for the Fridays.
C18_AnchorsOfTheYear ==
    /\ last.op = "get_mondays_range" => ListsWeekly(last.value, DaysOfYear(0))
    /\ last.op = "get_fridays_range" => ListsWeekly(last.value, DaysOfYear(4))

\* C18 witness: the 53 Mondays of 2024, from January 1 to December 30.
C18_MondaysOf2024 ==
    /\ last.op = "get_mondays_range" /\ Len(last.value) = 53
    /\ last.value[1] = <<2024, 1, 1>> /\ last.value[53] = <<2024, 12, 30>>

\* The committed actuals of ann@x for Friday 2024-03-08 in the tables fe, ce
RacedWeek(fe, ce) == get_entry(fe, ce, "ann@x", <<2024, 3, 8>>, "actual")

\* C20: with two submissions for one (user, kind, week) in flight together,
\* the committed rows of the week are at any time none, or the filtered
\* rows of one submission, never rows of both nor a part of one; a
\* submission that commits leaves exactly its own filtered rows (the last
\* to commit wins); one that fails after its delete, and every other step,
\* leaves both tables as they were.
C20_LastWriteWins ==
    [][/\ RacedWeek(forecast_entry', current_entry')
              \in {<<>>, Expected(RaceA), Expected(RaceB)}
       /\ \A r \in Requests :
              (session[r].pc = "deleted" /\ session'[r].pc = "none" /\ last'.code = 200)
                  => RacedWeek(forecast_entry', current_entry')
                         = Expected(session[r].data.rows)
       /\ (\A r \in Requests :
               ~(session[r].pc = "deleted" /\ session'[r].pc = "none" /\ last'.code = 200))
              => (forecast_entry' = forecast_entry /\ current_entry' = current_entry)]_vars

\* C20 witness: a submission has replaced the week's other rows while the
\* second submission, with those other rows, is in flight.
C20_ReplacedWhileRacing ==
    /\ last.op = "submit" /\ last.code = 200 /\ last.deleted # <<>>
    /\ EntryView(last.deleted) # Expected(last.data.rows)
    /\ \E r \in Requests :
           session[r].pc = "validated" /\ session[r].data.rows # last.data.rows

\* The week date of a stored row
WeekOf(e) == ParseDate(e.survey_id[1])

\* The points the scorer gives a member's forecast slot of the week `date`
ForecastSlot(member_email, date) ==
    SlotPoints(<<date>>, Submissions(MemberEntries(forecast_entry, member_email)))

\* The week dates of the stored forecast rows
ForecastWeeks == {forecast_entry[i].survey_id[1] : i \in 1 .. Len(forecast_entry)}

\* C21 (amended): every stored forecast row is written no later than the
\* day after its week date, which is the grace deadline, so every forecast
\* slot is scored 0 or 10 and never 5; every stored actual row is written
\* no earlier than the day before its week date.
C21_WrittenWithinADay ==
    /\ \A i \in 1 .. Len(forecast_entry) :
           forecast_entry[i].modified <= WeekOf(forecast_entry[i]) + 1
    /\ \A member_email \in Users, date \in ForecastWeeks :
           ForecastSlot(member_email, date) \in {0, 10}
    /\ \A i \in 1 .. Len(current_entry) :
           current_entry[i].modified >= WeekOf(current_entry[i]) - 1

\* C21 witness: the forecast of Monday 2024-03-11, accepted on that Monday,
\* is stored with Tuesday's date and its slot is scored 10.
C21_ForecastStampedTuesday ==
    /\ last.op = "submit" /\ last.code = 200 /\ last.data.type = "forecast"
    /\ \E i \in 1 .. Len(forecast_entry) :
           /\ forecast_entry[i].survey_id[1] = <<2024, 3, 11>>
           /\ forecast_entry[i].modified = Monday11 + 1
    /\ ForecastSlot("ann@x", <<2024, 3, 11>>) = 10

\* C21 (as claimed): every stored forecast row is written on or before its
\* week date, every forecast slot is scored 0 or 10, and every stored actual
\* row is written on or after its week date.
C21_WrittenAsClaimed ==
    /\ \A i \in 1 .. Len(forecast_entry) :
           forecast_entry[i].modified <= WeekOf(forecast_entry[i])
    /\ \A date \in ForecastWeeks, member_email \in Users :
           ForecastSlot(member_email, date) \in {0, 10}
    /\ \A i \in 1 .. Len(current_entry) :
           current_entry[i].modified >= WeekOf(current_entry[i])

\* The item x is the one the request body `data` names
NamedBy(x, data) == x.date = data.date /\ x.type = data.type

\* C22: every item the resolver lists for a user names a (date, type) that
\* POST /submit, on the same day and from the same user, accepts with a
\* valid row; and a submission with a valid row for a listed item, once
\* committed, leaves the resolver's list as it was less that item.
C22_ListedIsAcceptedAndCleared ==
    [][last'.op = "submit" =>
           \E pre \in {get_outstanding_items(forecast_entry, current_entry,
                                             last'.user, today)} :
               /\ \A i \in 1 .. Len(pre) :
                      SubmitOutcome(forecast_entry, current_entry, last'.user,
                                    Body(pre[i].date, pre[i].type, <<rowP>>),
                                    today, today).code = 200
               /\ (/\ \E i \in 1 .. Len(pre) : NamedBy(pre[i], last'.data)
                   /\ Expected(last'.data.rows) # <<>>)
                      => /\ last'.code = 200
                         /\ get_outstanding_items(forecast_entry', current_entry',
                                                  last'.user, today')
                                = SelectSeq(pre, LAMBDA x : ~NamedBy(x, last'.data))]_vars

\* C22 witness: the user, holding the actuals of one listed Friday already,
\* has committed the actuals of another Friday that was listed, and the
\* list still holds other items.
C22_ClearedOneOfMany ==
    /\ last.op = "submit" /\ last.code = 200 /\ last.deleted = <<>>
    /\ last.data.type = "actual" /\ Len(current_entry) = 2
    /\ last.data.date \in SubmittedDates(current_entry, last.user)
    /\ \E items \in {get_outstanding_items(forecast_entry, current_entry,
                                            last.user, today)} :
           /\ Len(items) >= 2
           /\ \A i \in 1 .. Len(items) : ~NamedBy(items[i], last.data)

====
